---- MODULE Spec2Model ----
(***************************************************************************)
(* Model of the working-environment engine of tasks.py (class env):        *)
(* env.update (deep merge), env.dmap (tree walker), env.load (include      *)
(* resolver) and fs.shexpand (pattern expander); and of msg.ask_yn (the    *)
(* yes/no prompt).                                                         *)
(*                                                                         *)
(* Python objects live on a heap: dicts and lists are heap nodes that are  *)
(* reached through references, so that aliasing, in-place mutation and     *)
(* deepcopy are what they are in the interpreter.  Scalars are immutable   *)
(* and are carried by value.  A dict keeps its insertion order.            *)
(***************************************************************************)
EXTENDS Integers, Sequences, FiniteSets, TLC

VARIABLES
    heap,       \* the object heap: address -> dict or list node
    fs,         \* the files on disk: path -> document
    pc,         \* position of the calling program
    tgt,        \* env.update harness: the target argument
    srcs,       \* env.update harness: the source arguments
    pre,        \* heap when the last env.update call started
    post,       \* heap when the last env.update call returned
    outcome,    \* exception raised by the last env.update call, or "ok"
    calls,      \* the env.load calls made so far, with their outcomes
    walk,       \* env.dmap harness: the call, and its outcome once it is made
    ask         \* msg.ask_yn harness: the user's answers, and the outcome

vars == <<heap, fs, pc, tgt, srcs, pre, post, outcome, calls, walk, ask>>

----------------------------------------------------------------------------
(* Bounds *)

\* Frames of nested env.load calls the interpreter allows before it raises
\* RecursionError (sys.getrecursionlimit(), scaled down).
MaxRecursion == 3

\* Number of env.load calls the calling program makes.
MaxCalls == 2

----------------------------------------------------------------------------
(* Values and heap nodes *)

Str(s) == [t |-> "s", x |-> 0, s |-> s]         \* a str
Num(n) == [t |-> "n", x |-> n, s |-> ""]        \* an int
Ref(a) == [t |-> "r", x |-> a, s |-> ""]        \* reference to a heap node
PyNone == [t |-> "n", x |-> 0, s |-> "None"]
PyTrue == [t |-> "n", x |-> 1, s |-> "True"]

MapNode(ks, vs) == [t |-> "m", ks |-> ks, vs |-> vs]   \* dict, in insertion order

isdict(h, v) == v.t = "r" /\ h[v.x].t = "m"
islist(h, v) == v.t = "r" /\ h[v.x].t = "l"

\* dict primitives: k in d, d[k], d[k] = v, del d[k], tuple(d.items())
Has(n, k) == \E i \in 1..Len(n.ks) : n.ks[i] = k
IndexOf(n, k) == CHOOSE i \in 1..Len(n.ks) : n.ks[i] = k
GetItem(n, k) == n.vs[IndexOf(n, k)]
SetItem(n, k, v) ==
    IF Has(n, k) THEN [n EXCEPT !.vs[IndexOf(n, k)] = v]
    ELSE [n EXCEPT !.ks = Append(@, k), !.vs = Append(@, v)]
Without(s, i) == [j \in 1..(Len(s) - 1) |-> IF j < i THEN s[j] ELSE s[j + 1]]
DelItem(n, k) ==
    [n EXCEPT !.ks = Without(@, IndexOf(n, k)), !.vs = Without(@, IndexOf(n, k))]
items(n) == [i \in 1..Len(n.ks) |-> <<n.ks[i], n.vs[i]>>]

\* The interpreter state threaded through a call: heap, pending exception,
\* the log of callback invocations, and the exceptions raised so far by a
\* step that failed (a file that cannot be parsed, a pattern that cannot be
\* expanded, a merge that cannot be done, a call stack that is full).
St(h) == [h |-> h, err |-> "ok", log |-> <<>>, failed |-> <<>>]
\* raise e, where e is how the code asks whether a value is a mapping or an
\* iterable (m.items(), *val)
Raise(S, e) == [S EXCEPT !.err = e]
\* raise e, where a step failed
Fail(S, e) == [S EXCEPT !.err = e, !.failed = Append(@, e)]
\* contextlib.suppress(e): the block's exception e is dropped, its effects stay.
suppress(e, S) == IF S.err = e THEN [S EXCEPT !.err = "ok"] ELSE S

----------------------------------------------------------------------------
(* Documents: a tree written as a node table, root first.  Loading a       *)
(* document allocates a fresh copy of its nodes.                           *)

Shift(v, off) == IF v.t = "r" THEN Ref(v.x + off) ELSE v
Reloc(n, off) == [n EXCEPT !.vs = [i \in 1..Len(n.vs) |-> Shift(n.vs[i], off)]]

RECURSIVE SumLen(_, _)
SumLen(subs, i) == IF i = 0 THEN 0 ELSE Len(subs[i].nodes) + SumLen(subs, i - 1)

RECURSIVE Bodies(_, _)
Bodies(subs, i) ==
    IF i > Len(subs) THEN <<>>
    ELSE [j \in 1..Len(subs[i].nodes) |-> Reloc(subs[i].nodes[j], 1 + SumLen(subs, i - 1))]
         \o Bodies(subs, i + 1)

Leaf(v) == [root |-> v, nodes |-> <<>>]
Build(t, ks, subs) ==
    [root |-> Ref(1),
     nodes |-> <<[t |-> t, ks |-> ks,
                  vs |-> [i \in 1..Len(subs) |-> Shift(subs[i].root, 1 + SumLen(subs, i - 1))]]>>
               \o Bodies(subs, 1)]
MapDoc(ks, subs) == Build("m", ks, subs)
ListDoc(subs) == Build("l", <<>>, subs)

\* The text of a file that is no YAML document.
Malformed == [root |-> Ref(1), nodes |-> <<[t |-> "x", ks |-> <<>>, vs |-> <<>>]>>]
Unparsable(d) == d.nodes # <<>> /\ d.nodes[1].t = "x"

\* Allocate the nodes of document d on heap h.
Place(h, d) ==
    [h |-> h \o [i \in 1..Len(d.nodes) |-> Reloc(d.nodes[i], Len(h))],
     v |-> Shift(d.root, Len(h))]

----------------------------------------------------------------------------
(* copy.deepcopy *)

\* Fault: the value is stored as it is, not copied.
deepcopy_alias(h, v) == [h |-> h, v |-> v]

RECURSIVE deepcopy(_, _), deepcopy_items(_, _, _)
deepcopy(h, v) ==
    IF v.t # "r" THEN [h |-> h, v |-> v]
    ELSE LET n == h[v.x]
             a == Len(h) + 1
             r == deepcopy_items(Append(h, [n EXCEPT !.vs = <<>>]), n.vs, 1)
         IN [h |-> [r.h EXCEPT ![a].vs = r.vs], v |-> Ref(a)]
deepcopy_items(h, vs, i) ==
    IF i > Len(vs) THEN [h |-> h, vs |-> <<>>]
    ELSE LET c == deepcopy(h, vs[i])
             rest == deepcopy_items(c.h, vs, i + 1)
         IN [h |-> rest.h, vs |-> <<c.v>> \o rest.vs]

----------------------------------------------------------------------------
(* env.update *)

RECURSIVE update(_, _, _), update_items(_, _, _, _)

\* for m in mapping: with suppress(AttributeError): for k, v in tuple(m.items())
update(S, target, ms) ==
    IF S.err # "ok" \/ ms = <<>> THEN S
    ELSE LET m == Head(ms)
             S1 == IF ~isdict(S.h, m) THEN Raise(S, "AttributeError")
                   ELSE update_items(S, target, items(S.h[m.x]), 1)
         IN update(suppress("AttributeError", S1), target, Tail(ms))

\* Fault: dict.update semantics, a dict of the source replaces the target's.
RECURSIVE update_items_replace(_, _, _, _)
update_items_replace(S, target, its, i) ==
    IF S.err # "ok" \/ i > Len(its) THEN S
    ELSE LET c == deepcopy(S.h, its[i][2])
             S1 == IF ~isdict(S.h, target) THEN Fail(S, "TypeError")
                   ELSE [S EXCEPT !.h = [c.h EXCEPT ![target.x] = SetItem(@, its[i][1], c.v)]]
         IN update_items_replace(S1, target, its, i + 1)

\* if k in target and isinstance(v, dict): cls.update(target[k], v)
\* else: target[k] = deepcopy(v)
\* With str keys, a target that is no dict fails with TypeError on
\* `k in target`, on `target[k]` or on `target[k] = ...`, whatever its type.
update_items(S, target, its, i) ==
    IF S.err # "ok" \/ i > Len(its) THEN S
    ELSE LET k == its[i][1]
             v == its[i][2]
             S1 == IF ~isdict(S.h, target) THEN Fail(S, "TypeError")
                   ELSE IF Has(S.h[target.x], k) /\ isdict(S.h, v)
                        THEN update(S, GetItem(S.h[target.x], k), <<v>>)
                        ELSE LET c == deepcopy(S.h, v)
                             IN [S EXCEPT !.h = [c.h EXCEPT ![target.x] = SetItem(@, k, c.v)]]
         IN update_items(S1, target, its, i + 1)

----------------------------------------------------------------------------
(* env.ENVIRONMENT_DEFAULTS: the class attribute, built when the module is *)
(* imported; it is the first object on the heap.                           *)

ENVIRONMENT_DEFAULTS ==
    MapDoc(<<"project", "doc">>,
           <<MapDoc(<<"default_env", "build_d", "src_d">>,
                    <<Leaf(Str("dev")), Leaf(Str("build")), Leaf(Str("src"))>>),
             MapDoc(<<"insert_code", "src_d", "target", "build_d">>,
                    <<Leaf(PyTrue), Leaf(Str("doc")), Leaf(Str("html")),
                      Leaf(Str("build/doc"))>>)>>)

InitHeap == Place(<<>>, ENVIRONMENT_DEFAULTS).h
Defaults == Place(<<>>, ENVIRONMENT_DEFAULTS).v

----------------------------------------------------------------------------
(* fs.shexpand *)

\* The order in which the directory lists its files; it stays the same as
\* long as the files do.
Listing == <<"a.yaml", "b.yaml", "c.yaml">>

\* glob.glob(os.path.expanduser(os.path.expandvars(x))): the existing files
\* that match x; "*.yaml" is the one wildcard pattern of the model.
glob(x) ==
    IF x = "*.yaml" THEN SelectSeq(Listing, LAMBDA f : f \in DOMAIN fs)
    ELSE IF x \in DOMAIN fs THEN <<x>>
    ELSE <<>>

\* `it` is the iterable of patterns (env.load always passes its argument
\* tuple, so the str branch is never taken from there); os.path.expandvars
\* raises TypeError for an item that is not a str.
\* Fault: a pattern that matches no file is an error.
RECURSIVE shexpand_strict(_)
shexpand_strict(it) ==
    IF it = <<>> THEN [err |-> "ok", paths |-> <<>>]
    ELSE IF Head(it).t # "s" THEN [err |-> "TypeError", paths |-> <<>>]
    ELSE IF glob(Head(it).s) = <<>> THEN [err |-> "FileNotFoundError", paths |-> <<>>]
    ELSE LET rest == shexpand_strict(Tail(it))
         IN [err |-> rest.err,
             paths |-> IF rest.err = "ok" THEN glob(Head(it).s) \o rest.paths ELSE <<>>]

RECURSIVE shexpand(_)
shexpand(it) ==
    IF it = <<>> THEN [err |-> "ok", paths |-> <<>>]
    ELSE IF Head(it).t # "s" THEN [err |-> "TypeError", paths |-> <<>>]
    ELSE LET rest == shexpand(Tail(it))
         IN [err |-> rest.err,
             paths |-> IF rest.err = "ok" THEN glob(Head(it).s) \o rest.paths ELSE <<>>]

----------------------------------------------------------------------------
(* env.dmap and env.load *)

\* `*val` in a call: the elements of a list, the keys of a dict, the
\* characters of a str (each a str: one stands for them all, none for the
\* empty str).  Any other scalar is not iterable.
iterable(h, val) == val.t \in {"r", "s"}
star(h, val) ==
    IF islist(h, val) THEN h[val.x].vs
    ELSE IF isdict(h, val) THEN [i \in 1..Len(h[val.x].ks) |-> Str(h[val.x].ks[i])]
    ELSE IF val.s = "" THEN <<>> ELSE <<val>>

RECURSIVE dmap(_, _, _, _, _), dmap_items(_, _, _, _, _, _, _)
RECURSIVE callback(_, _, _, _, _, _), _load_include(_, _, _, _, _)
RECURSIVE load(_, _, _, _), load_paths(_, _, _, _, _)

\* for m in mapping: with suppress(AttributeError): for k, v in tuple(m.items())
dmap(S, cb, ms, recurse, depth) ==
    IF S.err # "ok" \/ ms = <<>> THEN S
    ELSE LET m == Head(ms)
             S1 == IF ~isdict(S.h, m) THEN Raise(S, "AttributeError")
                   ELSE dmap_items(S, cb, m, items(S.h[m.x]), 1, recurse, depth)
         IN dmap(suppress("AttributeError", S1), cb, Tail(ms), recurse, depth)

\* Fault: the walk reads the mapping as it is at each step, not the
\* snapshot taken before the first call: for k, v in m.items().
RECURSIVE dmap_items_live(_, _, _, _, _, _, _)
dmap_items_live(S, cb, m, its, i, recurse, depth) ==
    IF S.err # "ok" \/ i > Len(items(S.h[m.x])) THEN S
    ELSE LET k == items(S.h[m.x])[i][1]
             v == items(S.h[m.x])[i][2]
             S1 == IF recurse /\ isdict(S.h, v)
                   THEN dmap(S, cb, <<v, PyTrue>>, FALSE, depth)
                   ELSE callback(S, cb, m, k, v, depth)
         IN dmap_items_live(S1, cb, m, its, i + 1, recurse, depth)

\* if recurse and isinstance(v, dict): cls.dmap(callback, v, recurse)
\* else: callback(m, k, v)
\* In the recursive call `recurse` is passed by position: it joins *mapping
\* and the keyword keeps its default, False.
dmap_items(S, cb, m, its, i, recurse, depth) ==
    IF S.err # "ok" \/ i > Len(its) THEN S
    ELSE LET k == its[i][1]
             v == its[i][2]
             S1 == IF recurse /\ isdict(S.h, v)
                   THEN dmap(S, cb, <<v, PyTrue>>, FALSE, depth)
                   ELSE callback(S, cb, m, k, v, depth)
         IN dmap_items(S1, cb, m, its, i + 1, recurse, depth)

\* callback(m, k, v): every invocation is logged.  The callbacks are
\* env.load's _load_include and, for the walker on its own, three callbacks
\* of a caller: "record" does nothing, "insert" does m["new"] = 0, "delete"
\* does `for j in list(m): if j != k: del m[j]`.
callback(S, cb, m, k, v, depth) ==
    LET S1 == [S EXCEPT !.log = Append(@, <<m.x, k, v>>)]
        n == S.h[m.x]
    IN IF cb = "_load_include" THEN _load_include(S1, m, k, v, depth)
       ELSE IF cb = "insert" THEN [S1 EXCEPT !.h[m.x] = SetItem(n, "new", Num(0))]
       ELSE IF cb = "delete"
            THEN [S1 EXCEPT !.h[m.x] =
                     IF Has(n, k) THEN MapNode(<<k>>, <<GetItem(n, k)>>)
                     ELSE MapNode(<<>>, <<>>)]
       ELSE S1

\* Fault: the mapping is merged over the included content, so that its own
\* keys win: included = cls.load(val); cls.update(included, mapping);
\* mapping.update(included).
_load_include_direct(S, mapping, key, val, depth) ==
    LET S1 == IF key = "include"
              THEN LET n == S.h[mapping.x]
                       Sd == [S EXCEPT !.h[mapping.x] =
                                 IF Has(n, key) THEN DelItem(n, key) ELSE n]
                       r == load(Sd, <<val>>, FALSE, depth + 1)
                       U == update(r.S, r.v, <<mapping>>)
                   IN IF U.err # "ok" THEN U
                      ELSE [U EXCEPT !.h[mapping.x] = U.h[r.v.x]]
              ELSE S
    IN IF S1.err # "ok" THEN S1
       ELSE suppress("TypeError",
                IF ~iterable(S1.h, val) THEN Raise(S1, "TypeError")
                ELSE dmap(S1, "_load_include", star(S1.h, val), TRUE, depth))

\* if key == 'include': del mapping[key]; cls.update(mapping, cls.load(val))
\* with suppress(TypeError): cls.dmap(_load_include, *val, recurse=True)
_load_include(S, mapping, key, val, depth) ==
    LET S1 == IF key = "include"
              THEN LET n == S.h[mapping.x]
                       Sd == [S EXCEPT !.h[mapping.x] =
                                 IF Has(n, key) THEN DelItem(n, key) ELSE n]
                       r == load(Sd, <<val>>, FALSE, depth + 1)
                   IN update(r.S, mapping, <<r.v>>)
              ELSE S
    IN IF S1.err # "ok" THEN S1
       ELSE suppress("TypeError",
                IF ~iterable(S1.h, val) THEN Raise(S1, "TypeError")
                ELSE dmap(S1, "_load_include", star(S1.h, val), TRUE, depth))

\* env.load(*pattern, use_defaults): returns the state and the environment.
\* depth is the number of env.load frames on the stack.
load(S, pattern, use_defaults, depth) ==
    IF depth > MaxRecursion THEN [S |-> Fail(S, "RecursionError"), v |-> PyNone]
    ELSE LET environment == Ref(Len(S.h) + 1)
             \* environment = {} or cls.ENVIRONMENT_DEFAULTS.copy()
             S0 == [S EXCEPT !.h = Append(@, IF use_defaults THEN S.h[Defaults.x]
                                              ELSE MapNode(<<>>, <<>>))]
             S1 == dmap(S0, "_load_include", <<environment>>, TRUE, depth)
             e == shexpand(pattern)
             S2 == IF S1.err # "ok" THEN S1
                   ELSE IF e.err # "ok" THEN Fail(S1, e.err)
                   ELSE load_paths(S1, environment, e.paths, 1, depth)
         IN [S |-> S2, v |-> environment]

\* Fault: the files are merged from the last path to the first.
RECURSIVE load_paths_reversed(_, _, _, _, _)
load_paths_reversed(S, environment, paths, i, depth) ==
    IF S.err # "ok" \/ i > Len(paths) THEN S
    ELSE IF Unparsable(fs[paths[Len(paths) + 1 - i]])
         THEN load_paths_reversed(Fail(S, "YAMLError"), environment, paths, i + 1, depth)
    ELSE LET p == Place(S.h, fs[paths[Len(paths) + 1 - i]])
             S1 == dmap([S EXCEPT !.h = p.h], "_load_include", <<p.v>>, TRUE, depth)
             S2 == update(S1, environment, <<p.v>>)
         IN load_paths_reversed(S2, environment, paths, i + 1, depth)

\* for path in paths: loaded = yaml.safe_load(fp);
\*   cls.dmap(_load_include, loaded, recurse=True); cls.update(environment, loaded)
\* yaml.safe_load raises a YAMLError for a text that is no YAML document.
load_paths(S, environment, paths, i, depth) ==
    IF S.err # "ok" \/ i > Len(paths) THEN S
    ELSE IF Unparsable(fs[paths[i]])
         THEN load_paths(Fail(S, "YAMLError"), environment, paths, i + 1, depth)
    ELSE LET p == Place(S.h, fs[paths[i]])
             S1 == dmap([S EXCEPT !.h = p.h], "_load_include", <<p.v>>, TRUE, depth)
             S2 == update(S1, environment, <<p.v>>)
         IN load_paths(S2, environment, paths, i + 1, depth)

----------------------------------------------------------------------------
(* Observations on the heap *)

Keys(n) == {n.ks[i] : i \in 1..Len(n.ks)}

\* Python's ==: structural equality of the value v1 on heap h1 and v2 on h2.
RECURSIVE Eq(_, _, _, _)
Eq(h1, v1, h2, v2) ==
    IF v1.t # "r" \/ v2.t # "r" THEN v1 = v2
    ELSE LET n1 == h1[v1.x]
             n2 == h2[v2.x]
         IN /\ n1.t = n2.t
            /\ IF n1.t = "l"
               THEN /\ Len(n1.vs) = Len(n2.vs)
                    /\ \A i \in 1..Len(n1.vs) : Eq(h1, n1.vs[i], h2, n2.vs[i])
               ELSE /\ Keys(n1) = Keys(n2)
                    /\ \A k \in Keys(n1) : Eq(h1, GetItem(n1, k), h2, GetItem(n2, k))

\* The addresses of the dicts and lists reachable from v.
RECURSIVE Reach(_, _)
Reach(h, v) ==
    IF v.t # "r" THEN {}
    ELSE {v.x} \cup UNION {Reach(h, h[v.x].vs[i]) : i \in 1..Len(h[v.x].vs)}

ReachAll(h, vs) == UNION {Reach(h, vs[i]) : i \in 1..Len(vs)}

\* What a caller does to a dict or list it holds: d["mut"] = 99, l.append(99).
Mutated(n) == IF n.t = "m" THEN SetItem(n, "mut", Num(99)) ELSE [n EXCEPT !.vs = Append(@, Num(99))]

----------------------------------------------------------------------------
(* The calling program of env.update: it builds a target and sources,      *)
(* calls env.update once, and may afterwards mutate a node of a source.    *)

Absent == Leaf(Str("<absent>"))

\* The dicts over the keys `keys` (in that order), each key absent or bound
\* to a document of V.
MapsOver(keys, V) ==
    { LET idx == SelectSeq([i \in 1..Len(keys) |-> i], LAMBDA i : f[i] # Absent)
      IN MapDoc([j \in 1..Len(idx) |-> keys[idx[j]]], [j \in 1..Len(idx) |-> f[idx[j]]])
      : f \in [1..Len(keys) -> V \cup {Absent}] }

Atoms ==
    { Leaf(Num(1)), Leaf(Num(2)),
      ListDoc(<<Leaf(Num(1)), Leaf(Num(2))>>), ListDoc(<<Leaf(Num(3))>>),
      ListDoc(<<MapDoc(<<"a">>, <<Leaf(Num(1))>>)>>) }
Inner ==
    MapsOver(<<"a", "b">>, {Leaf(Num(1)), Leaf(Num(3))})
    \cup { MapDoc(<<"a">>, <<MapDoc(<<"b">>, <<Leaf(Num(1))>>)>>),
           MapDoc(<<"a">>, <<MapDoc(<<"c">>, <<Leaf(Num(2))>>)>>) }
YVals == {Leaf(Num(2)), Leaf(Num(9)), MapDoc(<<"b">>, <<Leaf(Num(3))>>)}
Tops ==
    { MapDoc(<<"x">>, <<x>>) : x \in Atoms \cup Inner }
    \cup { MapDoc(<<"x", "y">>, <<x, y>>) : x \in Atoms \cup Inner, y \in YVals }
    \cup MapsOver(<<"y">>, YVals)
\* A source may be no mapping at all.
Sources == Tops \cup {Leaf(PyNone)}
Seconds ==
    { MapDoc(<<"x">>, <<Leaf(Num(2))>>),
      MapDoc(<<"x">>, <<ListDoc(<<Leaf(Num(3))>>)>>),
      MapDoc(<<"x">>, <<MapDoc(<<"b">>, <<Leaf(Num(4))>>)>>),
      MapDoc(<<"x">>, <<MapDoc(<<"a">>, <<MapDoc(<<"c">>, <<Leaf(Num(2))>>)>>)>>),
      MapDoc(<<"y", "z">>, <<Leaf(Num(5)), MapDoc(<<"a">>, <<Leaf(Num(1))>>)>>),
      Leaf(PyNone) }

InitUpdate ==
    \E T \in Tops, S1 \in Sources :
        LET pt == Place(InitHeap, T)
            ps == Place(pt.h, S1)
        IN /\ heap = ps.h
           /\ tgt = pt.v
           /\ srcs = <<ps.v>>
           /\ pre = ps.h
           /\ post = ps.h
    /\ fs = <<>>
    /\ pc = "start"
    /\ outcome = "ok"
    /\ calls = <<>>
    /\ walk = <<>>
    /\ ask = <<>>

\* env.update(target, s1)
Update1 ==
    /\ pc = "start"
    /\ \E R \in {update(St(heap), tgt, srcs)} :
          /\ heap' = R.h
          /\ pre' = heap
          /\ post' = R.h
          /\ outcome' = R.err
    /\ pc' = "updated"
    /\ UNCHANGED <<fs, tgt, srcs, calls, walk, ask>>

\* env.update(target, s1, s2)
Update2 ==
    /\ pc = "start"
    /\ \E S2 \in Seconds :
        \E ps \in {Place(heap, S2)} :
        \E R \in {update(St(ps.h), tgt, Append(srcs, ps.v))} :
           /\ srcs' = Append(srcs, ps.v)
           /\ heap' = R.h
           /\ pre' = ps.h
           /\ post' = R.h
           /\ outcome' = R.err
    /\ pc' = "updated"
    /\ UNCHANGED <<fs, tgt, calls, walk, ask>>

\* After the call the caller mutates a dict or list of a source.
MutateSource ==
    /\ pc = "updated"
    /\ \E a \in ReachAll(heap, srcs) : heap' = [heap EXCEPT ![a] = Mutated(@)]
    /\ pc' = "mutated"
    /\ UNCHANGED <<fs, tgt, srcs, pre, post, outcome, calls, walk, ask>>

NextUpdate == Update1 \/ Update2 \/ MutateSource

SpecUpdate == InitUpdate /\ [][NextUpdate]_vars

----------------------------------------------------------------------------
(* Properties of env.update *)

\* R (on heap hr) is the left-to-right fold of the sources Ss into T (both on
\* heap hp), as far as the merge rules speak: keys of T alone are kept; a key
\* whose last source value is a scalar or a sequence has that value; a key
\* bound to dicts throughout has the fold of those dicts.
RECURSIVE Folded(_, _, _, _, _)
Folded(hp, T, Ss, hr, R) ==
    LET D == SelectSeq(Ss, LAMBDA m : isdict(hp, m))
        tn == hp[T.x]
        rn == hr[R.x]
        srcKeys == UNION {Keys(hp[D[i].x]) : i \in 1..Len(D)}
    IN /\ isdict(hr, R)
       /\ Keys(rn) = Keys(tn) \cup srcKeys
       /\ \A k \in Keys(tn) \ srcKeys : Eq(hp, GetItem(tn, k), hr, GetItem(rn, k))
       /\ \A k \in srcKeys :
            LET occ == SelectSeq(D, LAMBDA m : Has(hp[m.x], k))
                val == [i \in 1..Len(occ) |-> GetItem(hp[occ[i].x], k)]
                last == val[Len(val)]
                alldict == \A i \in 1..Len(val) : isdict(hp, val[i])
            IN IF ~isdict(hp, last) THEN Eq(hp, last, hr, GetItem(rn, k))
               ELSE IF alldict /\ Has(tn, k) /\ isdict(hp, GetItem(tn, k))
                    THEN Folded(hp, GetItem(tn, k), val, hr, GetItem(rn, k))
               ELSE IF alldict /\ ~Has(tn, k)
                    THEN Folded(hp, Head(val), Tail(val), hr, GetItem(rn, k))
               ELSE TRUE

\* C1: env.update(target, s1, ..., sn) folds the sources left to right into
\* target: dicts met under the same key combine recursively, a scalar or a
\* sequence of a source replaces the target's value wholesale (a sequence
\* never appends), and keys of target alone are kept.
C1_UpdateFolds ==
    (pc \in {"updated", "mutated"} /\ outcome = "ok") => Folded(pre, tgt, srcs, post, tgt)

\* The spec's example shape: x is a dict in the target and in both sources
\* and has grown, y is a scalar that the first source overwrote.
C1_Witness ==
    /\ pc = "updated" /\ outcome = "ok" /\ Len(srcs) = 2
    /\ \A v \in {tgt, srcs[1], srcs[2]} :
          isdict(pre, v) /\ Has(pre[v.x], "x") /\ isdict(pre, GetItem(pre[v.x], "x"))
    /\ Has(pre[tgt.x], "y") /\ Has(pre[srcs[1].x], "y")
    /\ GetItem(post[tgt.x], "y") = Num(9) /\ GetItem(pre[tgt.x], "y") = Num(2)
    /\ Keys(post[GetItem(post[tgt.x], "x").x]) = {"a", "b"}
    /\ Keys(pre[GetItem(pre[tgt.x], "x").x]) = {"a"}

\* C2: for every mapping target and mapping source env.update raises no
\* error, and a key whose target value is no dict while the source value is
\* a dict ends up bound to a deep copy of the source's dict.
C2_DictOverNonDict ==
    (pc = "updated" /\ Len(srcs) = 1 /\ isdict(pre, srcs[1])) =>
        /\ outcome = "ok"
        /\ \A k \in Keys(pre[srcs[1].x]) \cap Keys(pre[tgt.x]) :
                LET tv == GetItem(pre[tgt.x], k)
                    sv == GetItem(pre[srcs[1].x], k)
                    rv == GetItem(post[tgt.x], k)
                IN (~isdict(pre, tv) /\ isdict(pre, sv)) =>
                      /\ Eq(pre, sv, post, rv)
                      /\ Reach(post, rv) \cap Reach(post, sv) = {}

\* C3: after env.update returns, target and the sources share no dict or
\* list; the call left every node of the sources as it was; and a later
\* mutation inside a source leaves the target's tree unchanged.
C3_NoSharing ==
    pc \in {"updated", "mutated"} =>
        /\ Reach(heap, tgt) \cap ReachAll(heap, srcs) = {}
        /\ \A a \in ReachAll(pre, srcs) : post[a] = pre[a]
        /\ Eq(post, tgt, heap, tgt)

\* A dict of the source was copied into the target, and that dict of the
\* source was mutated after the call.
C3_Witness ==
    /\ pc = "mutated" /\ outcome = "ok" /\ isdict(pre, srcs[1])
    /\ \E k \in Keys(pre[srcs[1].x]) :
          LET sv == GetItem(pre[srcs[1].x], k)
          IN /\ isdict(pre, sv)
             /\ ~Has(pre[tgt.x], k)
             /\ heap[sv.x] # post[sv.x]
             /\ Eq(post, sv, post, GetItem(post[tgt.x], k))

----------------------------------------------------------------------------
(* The calling program of env.load: files are on disk, the program calls   *)
(* env.load up to MaxCalls times and may mutate the tree a call returned.  *)

IncludeB == Leaf(Str("b.yaml"))
Named(n) == MapDoc(<<"name">>, <<Leaf(Str(n))>>)
NamedInc(n) == MapDoc(<<"name", "include">>, <<Leaf(Str(n)), IncludeB>>)

\* Contents of a.yaml
FilesA ==
    { MapDoc(<<"include", "k">>, <<IncludeB, Leaf(Num(1))>>),
      MapDoc(<<"k", "include">>, <<Leaf(Num(1)), IncludeB>>),
      MapDoc(<<"p">>, <<MapDoc(<<"include", "k">>, <<IncludeB, Leaf(Num(1))>>)>>),
      MapDoc(<<"p">>, <<MapDoc(<<"q">>, <<MapDoc(<<"include">>, <<IncludeB>>)>>)>>),
      MapDoc(<<"l">>, <<ListDoc(<<NamedInc("x"), Named("y")>>)>>),
      MapDoc(<<"p">>, <<MapDoc(<<"q">>,
          <<MapDoc(<<"l">>, <<ListDoc(<<NamedInc("x"), Named("y")>>)>>)>>)>>),
      MapDoc(<<"l">>, <<ListDoc(<<ListDoc(<<NamedInc("x")>>)>>)>>),
      MapDoc(<<"include", "k">>,
             <<ListDoc(<<Leaf(Str("b.yaml")), Leaf(Str("c.yaml"))>>), Leaf(Num(1))>>),
      MapDoc(<<"l", "z">>,
             <<ListDoc(<<MapDoc(<<"include", "q">>,
                   <<ListDoc(<<Leaf(Str("b.yaml")), Leaf(Str("c.yaml"))>>), Leaf(Num(1))>>)>>),
               Leaf(Num(1))>>),
      MapDoc(<<"project">>, <<MapDoc(<<"x">>, <<MapDoc(<<"a">>, <<Leaf(Num(1))>>)>>)>>),
      MapDoc(<<"k", "project">>,
             <<Leaf(Num(1)), MapDoc(<<"build_d">>, <<Leaf(Str("out"))>>)>>),
      MapDoc(<<"include">>, <<Leaf(Str("a.yaml"))>>),
      MapDoc(<<"include", "k">>, <<Leaf(Str("none.yaml")), Leaf(Num(1))>>) }

\* Contents of b.yaml
FilesB ==
    { MapDoc(<<"k", "j">>, <<Leaf(Num(2)), Leaf(Num(3))>>),
      MapDoc(<<"include">>, <<Leaf(Str("a.yaml"))>>),
      MapDoc(<<"include", "j">>, <<Leaf(Str("c.yaml")), Leaf(Num(3))>>),
      MapDoc(<<"project">>, <<MapDoc(<<"x", "build_d">>, <<Leaf(Num(5)), Leaf(Str("out"))>>)>>),
      MapDoc(<<"k">>, <<MapDoc(<<"a">>, <<Leaf(Num(1))>>)>>),
      Malformed }

\* Contents of c.yaml
FilesC == { MapDoc(<<"j", "m">>, <<Leaf(Num(4)), Leaf(Num(5))>>) }

\* The argument lists of the calls.
Patterns == { <<"a.yaml">>, <<"a.yaml", "b.yaml">>, <<"*.yaml">>, <<"none.yaml">> }

Init ==
    /\ heap = InitHeap
    /\ \E A \in FilesA, B \in FilesB, C \in FilesC :
          fs = [f \in {"a.yaml", "b.yaml", "c.yaml"}
                |-> IF f = "a.yaml" THEN A ELSE IF f = "b.yaml" THEN B ELSE C]
    /\ pc = "run"
    /\ tgt = PyNone
    /\ srcs = <<>>
    /\ pre = <<>>
    /\ post = <<>>
    /\ outcome = "ok"
    /\ calls = <<>>
    /\ walk = <<>>
    /\ ask = <<>>

\* result = env.load(*pattern, use_defaults=ud)
Load ==
    /\ pc = "run"
    /\ Len(calls) < MaxCalls
    /\ \E pattern \in Patterns, ud \in BOOLEAN :
          \E r \in {load(St(heap), [i \in 1..Len(pattern) |-> Str(pattern[i])], ud, 1)} :
             /\ heap' = r.S.h
             /\ calls' = Append(calls,
                   [pattern |-> pattern, use_defaults |-> ud, err |-> r.S.err,
                    ret |-> IF r.S.err = "ok" THEN r.v ELSE PyNone,
                    pre |-> heap, post |-> r.S.h, log |-> r.S.log,
                    failed |-> r.S.failed, mutated |-> FALSE])
    /\ UNCHANGED <<fs, pc, tgt, srcs, pre, post, outcome, walk, ask>>

\* The caller mutates every dict and list of the tree the last call returned.
MutateResult ==
    /\ pc = "run"
    /\ calls # <<>>
    /\ calls[Len(calls)].err = "ok"
    /\ ~calls[Len(calls)].mutated
    /\ heap' = [a \in DOMAIN heap |->
                  IF a \in Reach(heap, calls[Len(calls)].ret) THEN Mutated(heap[a])
                  ELSE heap[a]]
    /\ calls' = [calls EXCEPT ![Len(calls)].mutated = TRUE]
    /\ UNCHANGED <<fs, pc, tgt, srcs, pre, post, outcome, walk, ask>>

Next == Load \/ MutateResult

Spec == Init /\ [][Next]_vars

----------------------------------------------------------------------------
(* Properties of env.load *)

\* The top-level mapping of file f as written on disk.
Root(f) == fs[f].nodes[1]
\* The top-level mapping of the tree call c returned, when it returned.
Result(c) == c.post[c.ret.x]

\* Call c loads a.yaml alone; a.yaml has a top-level `include` of the single
\* pattern of an existing file that has no top-level `include` of its own.
IncludesPlainFile(c) ==
    /\ c.pattern = <<"a.yaml">>
    /\ Has(Root("a.yaml"), "include")
    /\ GetItem(Root("a.yaml"), "include").t = "s"
    /\ GetItem(Root("a.yaml"), "include").s \in DOMAIN fs
    /\ ~Has(Root(GetItem(Root("a.yaml"), "include").s), "include")
Included == Root(GetItem(Root("a.yaml"), "include").s)

\* The keys that a.yaml sets directly and the included file sets too, both
\* to scalars, to different ones.
Contested ==
    { k \in (Keys(Root("a.yaml")) \cap Keys(Included)) \ {"include"} :
        /\ GetItem(Root("a.yaml"), k).t # "r"
        /\ GetItem(Included, k).t # "r"
        /\ GetItem(Root("a.yaml"), k) # GetItem(Included, k) }

\* C4 as stated: when a mapping has an `include` and a direct key k that the
\* included file sets to a different scalar, the resolved mapping keeps its
\* own value of k, gains the included file's other keys and has no
\* `include` key.
C4_DirectKeyWins ==
    \A i \in 1..Len(calls) :
        (IncludesPlainFile(calls[i]) /\ Contested # {}) =>
            /\ calls[i].err = "ok"
            /\ \A k \in Contested : GetItem(Result(calls[i]), k) = GetItem(Root("a.yaml"), k)
            /\ Keys(Included) \subseteq Keys(Result(calls[i]))
            /\ ~Has(Result(calls[i]), "include")

\* C4 amended: in that case the resolved mapping has the included file's
\* value of k (the included value overwrites the direct key), gains the
\* included file's other keys and has no `include` key.
C4_IncludedKeyWins ==
    \A i \in 1..Len(calls) :
        (IncludesPlainFile(calls[i]) /\ Contested # {}) =>
            /\ calls[i].err = "ok"
            /\ \A k \in Contested : GetItem(Result(calls[i]), k) = GetItem(Included, k)
            /\ Keys(Included) \subseteq Keys(Result(calls[i]))
            /\ ~Has(Result(calls[i]), "include")

\* {include: b.yaml, k: 1} with b.yaml = {k: 2, j: 3} was resolved to
\* {k: 2, j: 3}.
C4_Witness ==
    \E i \in 1..Len(calls) :
        /\ IncludesPlainFile(calls[i]) /\ ~calls[i].use_defaults /\ calls[i].err = "ok"
        /\ Keys(Root("a.yaml")) = {"include", "k"}
        /\ GetItem(Root("a.yaml"), "k") = Num(1)
        /\ Keys(Result(calls[i])) = {"k", "j"}
        /\ GetItem(Result(calls[i]), "k") = Num(2)
        /\ GetItem(Result(calls[i]), "j") = Num(3)

\* C5: the tree env.load returns has no `include` key in any mapping, at
\* any depth.
C5_NoIncludeKey ==
    \A i \in 1..Len(calls) :
        calls[i].err = "ok" =>
            \A a \in Reach(calls[i].post, calls[i].ret) :
                calls[i].post[a].t = "m" => ~Has(calls[i].post[a], "include")

\* Value R on heap h is node i of the document `nodes` with every
\* `include` of a list element expanded in place, for the lists that are the
\* value of a key: they keep their length and order, an element that is a
\* dict with an `include` has lost it and kept its other keys, everything
\* else is as written.
RECURSIVE InPlace(_, _, _, _)
InPlace(nodes, i, h, R) ==
    LET n == nodes[i]
    IN /\ R.t = "r"
       /\ h[R.x].t = n.t
       /\ IF n.t = "l"
          THEN /\ Len(h[R.x].vs) = Len(n.vs)
               /\ \A j \in 1..Len(n.vs) :
                    LET e == n.vs[j]
                        r == h[R.x].vs[j]
                    IN IF e.t # "r" THEN r = e
                       ELSE IF nodes[e.x].t = "l" THEN islist(h, r)
                       ELSE IF Has(nodes[e.x], "include")
                            THEN /\ isdict(h, r)
                                 /\ ~Has(h[r.x], "include")
                                 /\ (Keys(nodes[e.x]) \ {"include"}) \subseteq Keys(h[r.x])
                            ELSE InPlace(nodes, e.x, h, r)
          ELSE Has(n, "include") \/
               /\ Keys(h[R.x]) = Keys(n)
               /\ \A k \in Keys(n) :
                    IF GetItem(n, k).t # "r" THEN GetItem(h[R.x], k) = GetItem(n, k)
                    ELSE InPlace(nodes, GetItem(n, k).x, h, GetItem(h[R.x], k))

\* C6: an `include` inside a mapping that is an element of a sequence is
\* expanded in place; the other elements, the order and the length of the
\* sequence are as they were.
C6_ListIncludeInPlace ==
    \A i \in 1..Len(calls) :
        (calls[i].pattern = <<"a.yaml">> /\ ~calls[i].use_defaults /\ calls[i].err = "ok")
            => InPlace(fs["a.yaml"].nodes, 1, calls[i].post, calls[i].ret)

\* The files that file f includes by a top-level directive of one pattern.
Inc(f) ==
    IF Has(Root(f), "include") /\ GetItem(Root(f), "include").t = "s"
    THEN {g \in DOMAIN fs : g = GetItem(Root(f), "include").s}
    ELSE {}
IncPlus(F) ==
    LET F1 == UNION {Inc(f) : f \in F}
        F2 == F1 \cup UNION {Inc(f) : f \in F1}
    IN F2 \cup UNION {Inc(f) : f \in F2}
Matched(pattern) == UNION {{glob(pattern[j])[n] : n \in 1..Len(glob(pattern[j]))} : j \in 1..Len(pattern)}
\* Resolving the pattern meets a file that transitively includes itself.
MeetsCycle(pattern) ==
    \E f \in Matched(pattern) \cup IncPlus(Matched(pattern)) : f \in IncPlus({f})

\* C7: env.load terminates; when a file transitively includes itself the
\* call ends with CyclicIncludeError and never runs into the recursion limit.
C7_CycleDetected ==
    \A i \in 1..Len(calls) :
        /\ calls[i].err # "RecursionError"
        /\ MeetsCycle(calls[i].pattern) => calls[i].err = "CyclicIncludeError"

\* C8: two env.load calls with the same patterns and use_defaults=True, and
\* nothing done in between, end alike: if the first returned then the second
\* returns an equal tree.
C8_Deterministic ==
    (/\ Len(calls) >= 2
     /\ calls[1].pattern = calls[2].pattern
     /\ calls[1].use_defaults /\ calls[2].use_defaults
     /\ ~calls[1].mutated
     /\ calls[1].err = "ok")
        => /\ calls[2].err = "ok"
           /\ Eq(calls[1].post, calls[1].ret, calls[2].post, calls[2].ret)

\* C9: env.load leaves env.ENVIRONMENT_DEFAULTS as it was, and a tree it
\* returns shares no dict or list with the defaults, whatever the caller
\* does to the tree afterwards.
C9_DefaultsUntouched ==
    /\ Eq(InitHeap, Defaults, heap, Defaults)
    /\ \A i \in 1..Len(calls) :
          calls[i].err = "ok" =>
              Reach(calls[i].post, calls[i].ret) \cap Reach(calls[i].post, Defaults) = {}

\* a.yaml has a top-level `include` whose value is a list of patterns of
\* plain files (scalars only, no `include`).
IncludesList ==
    /\ Has(Root("a.yaml"), "include")
    /\ GetItem(Root("a.yaml"), "include").t = "r"
    /\ LET l == fs["a.yaml"].nodes[GetItem(Root("a.yaml"), "include").x]
       IN /\ l.t = "l"
          /\ \A j \in 1..Len(l.vs) :
                /\ l.vs[j].t = "s"
                /\ \A f \in Matched(<<l.vs[j].s>>) :
                      \A k \in Keys(Root(f)) : k # "include" /\ GetItem(Root(f), k).t # "r"
IncludedFiles ==
    LET l == fs["a.yaml"].nodes[GetItem(Root("a.yaml"), "include").x]
    IN shexpand(l.vs).paths

\* C10: an `include` whose value is a sequence of patterns loads every file
\* the patterns match and merges them into the mapping in the order of the
\* sequence, without error.
C10_IncludeList ==
    \A i \in 1..Len(calls) :
        (calls[i].pattern = <<"a.yaml">> /\ IncludesList) =>
            /\ calls[i].err = "ok"
            /\ ~Has(Result(calls[i]), "include")
            /\ \A n \in 1..Len(IncludedFiles) :
                  \A k \in Keys(Root(IncludedFiles[n])) \ Keys(Root("a.yaml")) :
                      /\ Has(Result(calls[i]), k)
                      /\ (\A m \in (n + 1)..Len(IncludedFiles) : ~Has(Root(IncludedFiles[m]), k))
                            => GetItem(Result(calls[i]), k) = GetItem(Root(IncludedFiles[n]), k)

\* C11: env.load is all-or-nothing.  When a step of a call failed (a file
\* could not be parsed, an include could not be expanded or merged), the
\* call ends with that error; and a call that ends with an error leaves
\* every object that existed before the call, the defaults among them, as
\* it was.
C11_AllOrNothing ==
    \A i \in 1..Len(calls) :
        /\ calls[i].failed # <<>> => calls[i].err # "ok"
        /\ calls[i].err # "ok" =>
              \A a \in DOMAIN calls[i].pre : calls[i].post[a] = calls[i].pre[a]

\* C11, first half alone: the error of a failed step reaches the caller.
C11_ErrorReachesCaller ==
    \A i \in 1..Len(calls) : calls[i].failed # <<>> => calls[i].err # "ok"

\* C11, second half alone: a failing call has no effect outside itself.
C11_NoPartialEffect ==
    \A i \in 1..Len(calls) :
        calls[i].err # "ok" =>
            \A a \in DOMAIN calls[i].pre : calls[i].post[a] = calls[i].pre[a]

\* The expanded path list of call c.
Paths(c) == shexpand([j \in 1..Len(c.pattern) |-> Str(c.pattern[j])]).paths

\* File f is written without `include`.
Plain(f) ==
    /\ ~Unparsable(fs[f])
    /\ \A j \in 1..Len(fs[f].nodes) : ~Has(fs[f].nodes[j], "include")
\* File f has at most one `include`, a top-level one of a single pattern,
\* and the files the pattern matches are plain.
Simple(f) ==
    /\ ~Unparsable(fs[f])
    /\ \A j \in 2..Len(fs[f].nodes) : ~Has(fs[f].nodes[j], "include")
    /\ Has(Root(f), "include") =>
          /\ GetItem(Root(f), "include").t = "s"
          /\ \A g \in Inc(f) : Plain(g)

\* The trees that are merged when the files of `paths` are loaded in that
\* order, each as a value on its node table: a file, then what it includes.
RECURSIVE Layers(_, _)
Layers(paths, i) ==
    IF i > Len(paths) THEN <<>>
    ELSE LET f == paths[i]
             own == <<[h |-> fs[f].nodes, v |-> fs[f].root]>>
             inc == IF Inc(f) = {} THEN <<>>
                    ELSE LET g == CHOOSE g \in Inc(f) : TRUE
                         IN <<[h |-> fs[g].nodes, v |-> fs[g].root]>>
         IN own \o inc \o Layers(paths, i + 1)

\* The layers from the last one back to the first that is no dict.
RECURSIVE DictRun(_)
DictRun(ls) ==
    IF ls = <<>> \/ ~isdict(ls[Len(ls)].h, ls[Len(ls)].v) THEN <<>>
    ELSE Append(DictRun(SubSeq(ls, 1, Len(ls) - 1)), ls[Len(ls)])
\* The values the layers of ls that have key k bind it to.
At(ls, k) ==
    LET having == SelectSeq(ls, LAMBDA l : Has(l.h[l.v.x], k))
    IN [j \in 1..Len(having) |->
          [h |-> having[j].h, v |-> GetItem(having[j].h[having[j].v.x], k)]]

\* Value R on heap h is what the layers ls (a non-empty sequence, first to
\* last) leave when the later layer wins: the last layer's scalar or
\* sequence as it is; for a dict, the keys of the dicts merged into each
\* other, each with what its own layers leave.
RECURSIVE LaterWins(_, _, _)
LaterWins(h, R, ls) ==
    LET last == ls[Len(ls)]
    IN IF ~isdict(last.h, last.v) THEN Eq(last.h, last.v, h, R)
       ELSE /\ isdict(h, R)
            /\ LET run == DictRun(ls)
                   keys == UNION {Keys(run[j].h[run[j].v.x]) : j \in 1..Len(run)} \ {"include"}
               IN /\ Keys(h[R.x]) = keys
                  /\ \A k \in keys : LaterWins(h, GetItem(h[R.x], k), At(run, k))

\* C12: env.load merges the matched files in the order of the expanded path
\* list on top of the defaults, each file with its includes expanded: in
\* the tree a call returns, at every key the value of the later file is the
\* one in the result, a file's value overrides the default, and no
\* top-level `include` is left.
C12_LaterFileWins ==
    \A i \in 1..Len(calls) :
        LET c == calls[i]
        IN (c.err = "ok" /\ \A n \in 1..Len(Paths(c)) : Simple(Paths(c)[n])) =>
              LaterWins(c.post, c.ret,
                        (IF c.use_defaults THEN <<[h |-> c.pre, v |-> Defaults]>>
                         ELSE <<[h |-> <<MapNode(<<>>, <<>>)>>, v |-> Ref(1)]>>)
                        \o Layers(Paths(c), 1))

\* a.yaml = {k: 1, project: {build_d: out}} and b.yaml = {k: 2, j: 3} were
\* loaded in that order on top of the defaults: k is 2 and project.build_d
\* is "out", not the default "build".
C12_Witness ==
    \E i \in 1..Len(calls) :
        /\ calls[i].err = "ok" /\ calls[i].use_defaults
        /\ Paths(calls[i]) = <<"a.yaml", "b.yaml">>
        /\ Keys(Root("a.yaml")) = {"k", "project"}
        /\ GetItem(Root("a.yaml"), "k") = Num(1)
        /\ Keys(Root("b.yaml")) = {"k", "j"}
        /\ GetItem(Root("b.yaml"), "k") = Num(2)
        /\ GetItem(Result(calls[i]), "k") = Num(2)
        /\ GetItem(calls[i].pre[GetItem(calls[i].pre[Defaults.x], "project").x], "build_d")
              = Str("build")
        /\ GetItem(calls[i].post[GetItem(Result(calls[i]), "project").x], "build_d")
              = Str("out")

\* Every pattern of call c matches no file.
MatchesNothing(c) == \A j \in 1..Len(c.pattern) : glob(c.pattern[j]) = <<>>
\* Call c loads a.yaml alone, without defaults; a.yaml has one `include`, a
\* top-level one whose single pattern matches no file.
IncludesNothing(c) ==
    /\ c.pattern = <<"a.yaml">> /\ ~c.use_defaults
    /\ Has(Root("a.yaml"), "include")
    /\ GetItem(Root("a.yaml"), "include").t = "s"
    /\ glob(GetItem(Root("a.yaml"), "include").s) = <<>>
    /\ \A j \in 2..Len(fs["a.yaml"].nodes) : ~Has(fs["a.yaml"].nodes[j], "include")

\* C13: a pattern that matches no file is no error and contributes nothing.
\* env.load with only such patterns and use_defaults=False returns an empty
\* mapping; an `include` whose pattern matches no file only removes the
\* `include` key: the other keys of the mapping keep their values.
C13_NoMatchIsEmpty ==
    \A i \in 1..Len(calls) :
        /\ (MatchesNothing(calls[i]) /\ ~calls[i].use_defaults) =>
              /\ calls[i].err = "ok"
              /\ isdict(calls[i].post, calls[i].ret)
              /\ Keys(Result(calls[i])) = {}
        /\ IncludesNothing(calls[i]) =>
              /\ calls[i].err = "ok"
              /\ isdict(calls[i].post, calls[i].ret)
              /\ Keys(Result(calls[i])) = Keys(Root("a.yaml")) \ {"include"}
              /\ \A k \in Keys(Result(calls[i])) :
                    Eq(fs["a.yaml"].nodes, GetItem(Root("a.yaml"), k),
                       calls[i].post, GetItem(Result(calls[i]), k))

\* env.load('none.yaml') returned {} and env.load('a.yaml') returned {k: 1}
\* for a.yaml = {include: none.yaml, k: 1}.
C13_Witness ==
    /\ \E i \in 1..Len(calls) :
          /\ MatchesNothing(calls[i]) /\ ~calls[i].use_defaults
          /\ calls[i].pattern = <<"none.yaml">>
          /\ calls[i].err = "ok" /\ Keys(Result(calls[i])) = {}
    /\ \E i \in 1..Len(calls) :
          /\ IncludesNothing(calls[i])
          /\ GetItem(Root("a.yaml"), "include") = Str("none.yaml")
          /\ calls[i].err = "ok"
          /\ Keys(Result(calls[i])) = {"k"}
          /\ GetItem(Result(calls[i]), "k") = Num(1)

----------------------------------------------------------------------------
(* The calling program of env.dmap: it builds one or two arguments, which  *)
(* may be one and the same mapping or no mapping at all, and calls         *)
(* env.dmap once with a callback of its own.                               *)

WalkMaps ==
    { MapDoc(<<>>, <<>>),
      MapDoc(<<"a">>, <<Leaf(Num(1))>>),
      MapDoc(<<"a", "b", "c">>, <<Leaf(Num(1)), Leaf(Num(2)), Leaf(Num(3))>>),
      MapDoc(<<"a", "p">>,
             <<Leaf(Num(1)), MapDoc(<<"b", "c">>, <<Leaf(Num(2)), Leaf(Num(3))>>)>>),
      MapDoc(<<"p", "a">>,
             <<MapDoc(<<"q", "b">>, <<MapDoc(<<"r">>, <<Leaf(Num(1))>>), Leaf(Num(2))>>),
               Leaf(Num(1))>>),
      MapDoc(<<"p">>, <<MapDoc(<<"q">>,
             <<MapDoc(<<"s">>, <<MapDoc(<<"t">>, <<Leaf(Num(1))>>)>>)>>)>>),
      MapDoc(<<"a", "l">>,
             <<Leaf(Num(1)), ListDoc(<<MapDoc(<<"b">>, <<Leaf(Num(2))>>)>>)>>) }
NonMappings ==
    { Leaf(Num(5)), Leaf(PyNone), Leaf(Str("s")),
      ListDoc(<<MapDoc(<<"a">>, <<Leaf(Num(1))>>)>>) }
Same == Leaf(Str("<same>"))
Callbacks == {"record", "insert", "delete"}

InitDmap ==
    /\ \E A \in WalkMaps \cup NonMappings,
          B \in WalkMaps \cup NonMappings \cup {Absent, Same} :
          LET pa == Place(InitHeap, A)
              pb == Place(pa.h, B)
          IN /\ heap = IF B \in {Absent, Same} THEN pa.h ELSE pb.h
             /\ walk = [ms |-> IF B = Absent THEN <<pa.v>>
                               ELSE IF B = Same THEN <<pa.v, pa.v>>
                               ELSE <<pa.v, pb.v>>,
                        cb |-> "", recurse |-> FALSE,
                        pre |-> <<>>, post |-> <<>>, err |-> "ok", log |-> <<>>]
    /\ fs = <<>>
    /\ pc = "walk"
    /\ tgt = PyNone
    /\ srcs = <<>>
    /\ pre = <<>>
    /\ post = <<>>
    /\ outcome = "ok"
    /\ calls = <<>>
    /\ ask = <<>>

\* env.dmap(cb, *ms, recurse=recurse)
Walk ==
    /\ pc = "walk"
    /\ \E cb \in Callbacks, recurse \in BOOLEAN :
          \E R \in {dmap(St(heap), cb, walk.ms, recurse, 1)} :
             /\ heap' = R.h
             /\ walk' = [walk EXCEPT !.cb = cb, !.recurse = recurse, !.pre = heap,
                                     !.post = R.h, !.err = R.err, !.log = R.log]
    /\ pc' = "walked"
    /\ UNCHANGED <<fs, tgt, srcs, pre, post, outcome, calls, ask>>

NextDmap == Walk

SpecDmap == InitDmap /\ [][NextDmap]_vars

----------------------------------------------------------------------------
(* Properties of env.dmap *)

\* The addresses of the mappings reachable from v through mapping values.
RECURSIVE DictReach(_, _)
DictReach(h, v) ==
    IF ~isdict(h, v) THEN {}
    ELSE {v.x} \cup UNION {DictReach(h, h[v.x].vs[i]) : i \in 1..Len(h[v.x].vs)}

\* C14: env.dmap(callback, m, recurse=True) invokes callback on every entry
\* whose value is no mapping, of every mapping reachable from m through a
\* chain of mapping values of any length.
C14_RecurseAnyDepth ==
    (pc = "walked" /\ walk.recurse /\ walk.cb = "record") =>
        \A j \in 1..Len(walk.ms) :
            \A a \in DictReach(walk.pre, walk.ms[j]) :
                \A i \in 1..Len(walk.pre[a].ks) :
                    ~isdict(walk.pre, walk.pre[a].vs[i]) =>
                        \E n \in 1..Len(walk.log) :
                            walk.log[n] = <<a, walk.pre[a].ks[i], walk.pre[a].vs[i]>>

\* The dict n once a walk with callback cb has gone over all the entries it
\* had: "insert" has added the key "new" to it; "delete" has left the
\* visited key alone at the first call and has deleted that one at the
\* second.
After(cb, n) ==
    IF n.ks = <<>> THEN n
    ELSE IF cb = "insert" THEN SetItem(n, "new", Num(0))
    ELSE IF cb = "delete" /\ Len(n.ks) > 1 THEN MapNode(<<>>, <<>>)
    ELSE n

\* The invocations of a walk without recursion over the arguments ms, from
\* heap h on: for each argument that is a mapping, one invocation for each
\* entry it holds when its walk starts, in the mapping's order.
RECURSIVE Visits(_, _, _)
Visits(h, cb, ms) ==
    IF ms = <<>> THEN <<>>
    ELSE IF ~isdict(h, Head(ms)) THEN Visits(h, cb, Tail(ms))
    ELSE LET m == Head(ms)
         IN [i \in 1..Len(h[m.x].ks) |-> <<m.x, h[m.x].ks[i], h[m.x].vs[i]>>]
            \o Visits([h EXCEPT ![m.x] = After(cb, @)], cb, Tail(ms))

\* C16: env.dmap with recurse=False calls callback(m, k, v) exactly once for
\* every entry each given mapping held when the walk of that mapping
\* started, in the mapping's order and with the value of that moment,
\* whatever keys the callback inserts or deletes meanwhile; an argument that
\* is no mapping is skipped without error.
C16_SnapshotWalk ==
    (pc = "walked" /\ ~walk.recurse) =>
        /\ walk.err = "ok"
        /\ walk.log = Visits(walk.pre, walk.cb, walk.ms)

\* dmap(delete, {a: 1, b: 2, c: 3}, 5): the callback was called for a, b and
\* c with their values, though b and c were deleted at the first call; the
\* 5 was skipped.
C16_Witness ==
    /\ pc = "walked" /\ ~walk.recurse /\ walk.cb = "delete" /\ walk.err = "ok"
    /\ Len(walk.ms) = 2 /\ walk.ms[2] = Num(5) /\ isdict(walk.pre, walk.ms[1])
    /\ walk.pre[walk.ms[1].x].ks = <<"a", "b", "c">>
    /\ walk.post[walk.ms[1].x].ks = <<>>
    /\ walk.log = << <<walk.ms[1].x, "a", Num(1)>>, <<walk.ms[1].x, "b", Num(2)>>,
                     <<walk.ms[1].x, "c", Num(3)>> >>

\* dmap(insert, m, m) for m = {a: 1}: the inserted key "new" was not
\* visited in the walk that inserted it and was visited in the next one.
C16_WitnessInsert ==
    /\ pc = "walked" /\ ~walk.recurse /\ walk.cb = "insert" /\ walk.err = "ok"
    /\ Len(walk.ms) = 2 /\ walk.ms[1] = walk.ms[2] /\ isdict(walk.pre, walk.ms[1])
    /\ walk.pre[walk.ms[1].x].ks = <<"a">>
    /\ walk.log = << <<walk.ms[1].x, "a", Num(1)>>, <<walk.ms[1].x, "a", Num(1)>>,
                     <<walk.ms[1].x, "new", Num(0)>> >>

----------------------------------------------------------------------------
(* msg.ask_yn.  A str the user types is the sequence of its characters.    *)

PyFalse == [t |-> "n", x |-> 0, s |-> "False"]

\* re.compile(r'y|yes|t|true|1', re.IGNORECASE) and its counterpart: the
\* alternatives of the pattern.
valid_yes_re == { <<"y">>, <<"y", "e", "s">>, <<"t">>, <<"t", "r", "u", "e">>, <<"1">> }
valid_no_re == { <<"n">>, <<"n", "o">>, <<"f">>, <<"f", "a", "l", "s", "e">>, <<"0">> }

\* re.IGNORECASE, over the letters the user types in capitals.
lower(c) ==
    IF c = "Y" THEN "y" ELSE IF c = "E" THEN "e" ELSE IF c = "S" THEN "s"
    ELSE IF c = "N" THEN "n" ELSE IF c = "O" THEN "o" ELSE c

\* re.match(answer): the pattern matches at the beginning of the str, that
\* is, one of its alternatives is a prefix of the str.
match(re, answer) ==
    \E alt \in re :
        /\ Len(alt) <= Len(answer)
        /\ \A i \in 1..Len(alt) : lower(answer[i]) = alt[i]

max_try == 2

\* while max_try != 0: ...; answer = cls.ask(...); max_try -= 1
\* return None
\* answers[n] is the answer at hand, the n-th one the user gave.
RECURSIVE ask_yn_loop(_, _, _, _)
ask_yn_loop(answers, default, tries, n) ==
    IF tries = 0 THEN [ret |-> PyNone, asked |-> n]
    ELSE IF match(valid_yes_re, answers[n]) THEN [ret |-> PyTrue, asked |-> n]
    ELSE IF match(valid_no_re, answers[n]) THEN [ret |-> PyFalse, asked |-> n]
    ELSE IF default # PyNone THEN [ret |-> default, asked |-> n]
    ELSE ask_yn_loop(answers, default, tries - 1, n + 1)

\* answer = cls.ask(*lines), then the loop: the value returned and the
\* number of times the question was asked.
ask_yn(answers, default) == ask_yn_loop(answers, default, max_try, 1)

\* What the user types at a prompt.
Answers ==
    { <<"y">>, <<"Y", "E", "S">>, <<"n", "o">>, <<"N">>, <<>>,
      <<"m", "a", "y", "b", "e">>, <<"o", "k">>, <<"t", "r", "u", "e">> }

InitAsk ==
    /\ \E a \in [1..3 -> Answers], d \in {PyNone, PyTrue, PyFalse} :
          ask = [answers |-> a, default |-> d, ret |-> PyNone, asked |-> 0]
    /\ heap = InitHeap
    /\ fs = <<>>
    /\ pc = "ask"
    /\ tgt = PyNone
    /\ srcs = <<>>
    /\ pre = <<>>
    /\ post = <<>>
    /\ outcome = "ok"
    /\ calls = <<>>
    /\ walk = <<>>

\* ret = msg.ask_yn(question, default=default)
AskYn ==
    /\ pc = "ask"
    /\ \E r \in {ask_yn(ask.answers, ask.default)} :
          ask' = [ask EXCEPT !.ret = r.ret, !.asked = r.asked]
    /\ pc' = "asked"
    /\ UNCHANGED <<heap, fs, tgt, srcs, pre, post, outcome, calls, walk>>

NextAsk == AskYn

SpecAsk == InitAsk /\ [][NextAsk]_vars

\* The answer is a valid yes or no.
Valid(answer) == match(valid_yes_re, answer) \/ match(valid_no_re, answer)

\* C15: msg.ask_yn without a default asks at most 3 times and returns True
\* or False according to the first valid answer among the answers it asked
\* for; it returns None only when none of them was valid.
C15_FirstValidAnswer ==
    (pc = "asked" /\ ask.default = PyNone) =>
        /\ ask.asked <= 3
        /\ LET V == {i \in 1..ask.asked : Valid(ask.answers[i])}
           IN IF V = {} THEN ask.ret = PyNone
              ELSE LET first == CHOOSE i \in V : \A j \in V : i <= j
                   IN ask.ret = IF match(valid_yes_re, ask.answers[first])
                                THEN PyTrue ELSE PyFalse

\* C15, the part that holds: a valid answer among the first two decides.
C15_FirstTwoAnswers ==
    (pc = "asked" /\ ask.default = PyNone) =>
        /\ ask.asked <= 3
        /\ LET V == {i \in 1..2 : Valid(ask.answers[i])}
           IN IF V = {} THEN ask.ret = PyNone /\ ask.asked = 3
              ELSE LET first == CHOOSE i \in V : \A j \in V : i <= j
                   IN /\ ask.asked = first
                      /\ ask.ret = IF match(valid_yes_re, ask.answers[first])
                                   THEN PyTrue ELSE PyFalse

====
